---- MODULE Spec2Model ----
(***************************************************************************)
(* A model of the GLib main loop of src/glib/gmain.c: the source registry  *)
(* (a hook list), the poll-record list, the wake-up pipe, the global       *)
(* main_loop lock and g_main_iterate with its prepare / poll / check /     *)
(* dispatch phases, run by several threads and re-entered from dispatch    *)
(* callbacks.                                                              *)
(*                                                                         *)
(* Granularity.  A stretch of code that runs between a g_lock and the next *)
(* g_unlock is one action, except that the g_lock at the head of           *)
(* g_main_iterate is an action of its own (IterLock), so that the state in *)
(* which a thread has taken the lock and is about to walk the registry is  *)
(* visible.  The stretch of g_main_poll that follows the g_unlock made by  *)
(* g_main_poll_add_unlocked (first use of the wake-up pipe) is an action   *)
(* of its own too (PollUnlocked), because it runs without the lock.        *)
(* A g_unlock of a lock the caller does not hold is undefined behaviour of *)
(* the mutex: the model takes both outcomes (the lock is left alone, the   *)
(* lock is released under its holder).  A poll interrupted by a signal is  *)
(* not modelled: poll returns on a ready descriptor or on its timeout.     *)
(***************************************************************************)
EXTENDS Integers, Sequences, FiniteSets, TLC

(* ------------------------------ bounds --------------------------------- *)
\* threads that call into the main loop
NThreads == 2
\* g_source_add calls over a run of the registry alone (hook ids
\* 1..MaxSources)
MaxSources == 3
\* g_source_add calls over a run in which the loop iterates
MaxLoopSources == 2
\* source and poll-record priorities are 0..MaxPrio
MaxPrio == 1
\* g_main_iterate activations on one thread's call stack
MaxDepth == 2
\* caller-owned GPollFD structures 1..MaxFds (0 is wake_up_rec)
MaxFds == 1
\* length of the poll-record list
MaxPollRecs == 2
\* distinct user data pointers 1..MaxUserData
MaxUserData == 1
\* g_main_iterate calls over a run
MaxIters == 2
\* g_main_iterate calls over a run of the registry alone
MaxRegIters == 1
\* g_main_poll_add calls over a run
MaxPollAdds == 1
\* g_timeout_add calls over a run with timers (hook ids 1..MaxTimers)
MaxTimers == 2
\* the clock runs from 0 s up to MaxSec s
MaxSec == 1
\* current times a timer is tested against have 0..MaxTestSec seconds
MaxTestSec == 4
\* g_source_add calls with a null funcs over a run
MaxNullAdds == 1
\* g_main_iterate calls one g_main_run may make
MaxRunIters == 3

Threads == 1..NThreads
Prios == 0..MaxPrio
Oids == 1..MaxSources
\* timeouts a user source's prepare may write (-1: no bound from me)
TimeoutChoices == {-1, 3}
\* what an unwritten source_timeout slot may hold (g_idle_prepare, line 816)
Garbage == {-1, 7}

\* intervals of the timers, in milliseconds
Intervals == {500, 2500}
\* what the clock advances by between two readings, in microseconds
TickChoices == {500000}
\* the tv_usec of the current times a timer is tested against
UsecChoices == {0, 500000}

MIN(a, b) == IF a < b THEN a ELSE b

(* ------------------------------ state ---------------------------------- *)
VARIABLES
  hooks,            \* source_list: the linked hooks (GSource), in list order
  seq_id,           \* source_list.seq_id: the next hook id
  pending,          \* pending_dispatches: GSList of GSource pointers (oids)
  lock,             \* main_loop: 0 when free, else the holding thread
  poll_records,     \* the GPollRec list
  n_poll_records,
  wake_up_pipe,     \* TRUE once pipe() has filled wake_up_pipe[]
  pipe_bytes,       \* bytes written to wake_up_pipe[1] and not yet read
  poll_waiting,
  stack,            \* per thread: the activations of main-loop functions
  crashed,          \* the process has died on a write past fd_array
  iters,            \* g_main_iterate calls made so far (history)
  poll_adds,        \* g_main_poll_add calls made so far (history)
  calls,            \* per source: how often each destroy hook has run (history)
  now,              \* what g_get_current_time returns: a GTimeVal
  null_adds,        \* g_source_add calls made with a null funcs (history)
  loop,             \* the GMainLoop and the call of g_main_run made on it
  revents,          \* per caller's GPollFD: its revents field
  polled            \* what the last (*poll_func) to return was given and
                    \* answered, slot by slot (history)

vars == <<hooks, seq_id, pending, lock, poll_records, n_poll_records,
          wake_up_pipe, pipe_bytes, poll_waiting, stack, crashed, iters,
          poll_adds, calls, now, null_adds, loop, revents, polled>>

\* what the bounds cap: the call counters and the clock
budget == <<iters, poll_adds, now, null_adds>>

(* --------------------------- the hook list ----------------------------- *)
\* A GSource: oid stands for its address, hook_id is 0 once destroyed.
G_HOOK_IS_VALID(h) == h.hook_id # 0

G_HOOK_IN_CALL(h) == h.in_call

HookAt(hs, oid) == CHOOSE i \in 1..Len(hs) : hs[i].oid = oid

IsLinked(hs, oid) == \E i \in 1..Len(hs) : hs[i].oid = oid

RemoveAt(s, i) == SubSeq(s, 1, i - 1) \o SubSeq(s, i + 1, Len(s))

InsertAt(s, i, e) == SubSeq(s, 1, i - 1) \o <<e>> \o SubSeq(s, i, Len(s))

g_hook_ref(hs, oid) == [hs EXCEPT ![HookAt(hs, oid)].ref_count = @ + 1]

\* the hook is unlinked and freed when its last reference goes
g_hook_unref(hs, oid) ==
  LET i == HookAt(hs, oid) IN
  IF hs[i].ref_count = 1 THEN RemoveAt(hs, i)
  ELSE [hs EXCEPT ![i].ref_count = @ - 1]

\* g_hook_get: the hook whose hook_id is tag (0 when none); tag 0 is refused
g_hook_get(hs, tag) ==
  IF tag > 0 /\ \E i \in 1..Len(hs) : hs[i].hook_id = tag
  THEN hs[CHOOSE i \in 1..Len(hs) : hs[i].hook_id = tag].oid
  ELSE 0

\* g_hook_find with need_valids: the first valid hook among those at the
\* positions M, the ones its func accepts (0 when none)
g_hook_find(hs, M) ==
  LET V == {i \in M : G_HOOK_IS_VALID(hs[i])} IN
  IF V = {} THEN 0 ELSE hs[CHOOSE i \in V : \A j \in V : i <= j].oid

g_hook_find_data(hs, user_data) ==
  g_hook_find(hs, {i \in 1..Len(hs) : hs[i].data = user_data})

\* the destroy hooks run so far: src is funcs->destroy (source_data), user is
\* hook.destroy (hook.data); *_valid tells whether the source was still a
\* valid entry of the registry when the hook ran.  For a timer, kept and
\* stopped count the returns of its callback with TRUE and with FALSE.
NoCalls == [src |-> 0, user |-> 0, src_valid |-> FALSE, user_valid |-> FALSE,
            kept |-> 0, stopped |-> 0]

\* g_hook_destroy_link: zero the id, run hook.destroy once, drop the list's
\* reference.  r is [hooks, calls].
g_hook_destroy_link(r, oid) ==
  LET i == HookAt(r.hooks, oid) IN
  IF r.hooks[i].hook_id # 0
  THEN LET hs1 == [r.hooks EXCEPT ![i].hook_id = 0]
           c1 == IF r.hooks[i].notify
                 THEN [r.calls EXCEPT ![oid].user = @ + 1,
                                      ![oid].user_valid = G_HOOK_IS_VALID(hs1[i])]
                 ELSE r.calls
       IN [hooks |-> g_hook_unref(hs1, oid), calls |-> c1]
  ELSE r

(* -------------------------- source registry ---------------------------- *)
CompareLE(a, b) == IF a.priority <= b.priority THEN -1 ELSE 1

\* g_source_compare (lines 215-222)
g_source_compare(a, b) == IF a.priority < b.priority THEN -1 ELSE 1

\* the hook list refuses a hook whose func is null: nothing is linked and
\* no id is given out
Refused(h) == h.kind = "null"

\* g_hook_insert_sorted: before the first live sibling that func puts after
\* the new hook, else at the end
g_hook_insert_sorted(hs, h) ==
  LET S == {i \in 1..Len(hs) :
              hs[i].hook_id # 0 /\ g_source_compare(h, hs[i]) <= 0} IN
  IF Refused(h) THEN hs
  ELSE IF S = {} THEN Append(hs, h)
  ELSE InsertAt(hs, CHOOSE i \in S : \A j \in S : i <= j, h)

\* a GTimeVal
NoTime == [tv_sec |-> 0, tv_usec |-> 0]

\* expiration and interval are the GTimeoutData of a timer; armed is
\* history: the time the expiration was last computed from
NewSource(id, priority, can_recurse, kind, user_data) ==
  [oid |-> id, hook_id |-> id, priority |-> priority,
   can_recurse |-> can_recurse, in_call |-> FALSE, ready |-> FALSE,
   ref_count |-> 1, kind |-> kind, data |-> user_data, notify |-> TRUE,
   expiration |-> NoTime, interval |-> 0, armed |-> NoTime]

\* the instant a GTimeVal denotes, in microseconds
TimeOf(tv) == tv.tv_sec * 1000000 + tv.tv_usec

\* C's integer division, which truncates towards zero
CDiv(a, b) == IF a >= 0 THEN a \div b ELSE -((-a) \div b)

\* the expiration computed from the time cur (lines 766-771 and 790-796):
\* the microseconds are brought down by one second at most
Expire(cur, interval) ==
  LET usec == cur.tv_usec + interval * 1000 IN
  IF usec >= 1000000
  THEN [tv_sec |-> cur.tv_sec + 1, tv_usec |-> usec - 1000000]
  ELSE [tv_sec |-> cur.tv_sec, tv_usec |-> usec]

\* funcs->destroy (source_data) followed by g_hook_destroy_link: the body of
\* the three remove functions once the lookup has found a hook
\* (lines 279-281, 297-299, 324-326).  r is [hooks, calls].
DestroySourceLinkFirst(r, oid) ==
  LET r1 == g_hook_destroy_link(r, oid) IN
  [hooks |-> r1.hooks,
   calls |-> [r1.calls EXCEPT ![oid].src = @ + 1, ![oid].src_valid = FALSE]]

DestroySource(r, oid) ==
  LET h == r.hooks[HookAt(r.hooks, oid)]
      c1 == [r.calls EXCEPT ![oid].src = @ + 1,
                            ![oid].src_valid = G_HOOK_IS_VALID(h)]
  IN g_hook_destroy_link([hooks |-> r.hooks, calls |-> c1], oid)

RemoveSomeIfNone(r, tag) ==
  LET hook == g_hook_get(r.hooks, tag)
      some == g_hook_find(r.hooks, 1..Len(r.hooks))
  IN IF hook # 0 THEN DestroySource(r, hook)
     ELSE IF some # 0 THEN DestroySource(r, some)
     ELSE r

\* g_source_remove (lines 269-285), between g_lock and g_unlock
g_source_remove(r, tag) ==
  LET hook == g_hook_get(r.hooks, tag) IN
  IF hook # 0 THEN DestroySource(r, hook) ELSE r

\* g_source_remove_by_user_data (lines 287-303)
g_source_remove_by_user_data(r, user_data) ==
  LET hook == g_hook_find_data(r.hooks, user_data) IN
  IF hook # 0 THEN DestroySource(r, hook) ELSE r

\* g_source_find_source_data (lines 305-311): a source's private datum is
\* its own allocation, named here by the source's oid
g_source_find_source_data(h, data) == h.oid = data

\* g_source_remove_by_source_data (lines 313-330)
g_source_remove_by_source_data(r, source_data) ==
  LET hook == g_hook_find(r.hooks,
                {i \in 1..Len(r.hooks) :
                   g_source_find_source_data(r.hooks[i], source_data)}) IN
  IF hook # 0 THEN DestroySource(r, hook) ELSE r

(* ------------------------------ the lock ------------------------------- *)
\* g_unlock (main_loop) by thread t: releases the lock t holds; on a lock t
\* does not hold the mutex's behaviour is undefined, and the lock is either
\* left as it is or released
UnlockOutcomes(l, t) == IF l = t THEN {0} ELSE {l, 0}

(* --------------------------- call stacks ------------------------------- *)
\* One activation of g_main_iterate (or of g_main_poll_add, pc
\* "poll_add_unlock").  pc is the place the thread is at:
\*   "locked"        g_lock at line 397 has returned
\*   "poll_unlocked" in g_main_poll at line 594, after the g_unlock made by
\*                   g_main_poll_add_unlocked at line 679
\*   "poll"          inside (*poll_func) at line 610
\*   "read"          inside read() at line 616
\*   "dispatch"      inside the dispatch callback of src (line 364)
\*   "return"        g_main_iterate has returned retval
\* seen, held, prep_log, chk_log and prev are history: the next hook id when
\* the prepare phase ran, whether the lock was held when it ran, the sources
\* the prepare and check loops visited, in order (kept until the first
\* callback of the iteration returns), and the source whose callback this
\* activation ran before the present one.  current_time is the local of
\* that name, read at line 395.  found and took are history too:
\* pending_dispatches as g_main_dispatch found it when this activation
\* called it, and the entries this activation has taken off it since, in
\* order, each with the answer of the validity test of line 353; queued
\* tells whether pending_dispatches held entries when the lock of line 397
\* was obtained.  raced tells that another thread made the wake-up pipe
\* while this activation was between its g_lock and its own test of line
\* 583, which it may therefore have made before the pipe was there.
NewFrame(block, dispatch) ==
  [pc |-> "locked", block |-> block, dispatch |-> dispatch,
   nready |-> 0, current_priority |-> 0, timeout |-> 0,
   cap |-> 0, fd_array |-> <<>>, src |-> 0, retval |-> FALSE,
   seen |-> 0, held |-> TRUE, prep_log |-> <<>>, chk_log |-> <<>>,
   prev |-> [oid |-> 0, priority |-> 0], found |-> <<>>, took |-> <<>>,
   queued |-> FALSE, current_time |-> NoTime, raced |-> FALSE]

Depth(t) == Len(stack[t])

Top(t) == stack[t][Len(stack[t])]

At(t, pc) == IF Depth(t) > 0 THEN Top(t).pc = pc ELSE FALSE

\* a thread may enter the library from outside or from a dispatch callback
CanCall(t) == IF Depth(t) = 0 THEN TRUE ELSE Top(t).pc = "dispatch"

SetTop(t, f) == [stack EXCEPT ![t][Len(stack[t])] = f]

Push(t, f) == [stack EXCEPT ![t] = Append(@, f)]

Pop(t) == [stack EXCEPT ![t] = SubSeq(@, 1, Len(@) - 1)]

\* The GMainLoop of g_main_new (lines 545-551) and the one call of
\* g_main_run made on it.  pc is where that call is: "off" before it is
\* made, "run" inside the while loop (at its test when the thread has no
\* g_main_iterate under way), "call" after a test that read flag FALSE,
\* "done" once it has returned.  quit and late are history: where the first
\* g_main_quit made during the run found it, and whether the run has called
\* g_main_iterate since.
NoRun ==
  [flag |-> FALSE, pc |-> "off", thread |-> 0, quit |-> "none",
   late |-> FALSE]

(* ------------------------------- Init ---------------------------------- *)
Init ==
  /\ hooks = <<>>
  /\ seq_id = 1
  /\ pending = <<>>
  /\ lock = 0
  /\ poll_records = <<>>
  /\ n_poll_records = 0
  /\ wake_up_pipe = FALSE
  /\ pipe_bytes = 0
  /\ poll_waiting = FALSE
  /\ stack = [t \in Threads |-> <<>>]
  /\ crashed = FALSE
  /\ iters = 0
  /\ poll_adds = 0
  /\ calls = [o \in Oids |-> NoCalls]
  /\ now = NoTime
  /\ null_adds = 0
  /\ loop = NoRun
  /\ revents = [fd \in 1..MaxFds |-> 0]
  /\ polled = <<>>

(* -------------------------- registry actions --------------------------- *)
\* g_source_add (lines 224-267); g_idle_add_full (lines 837-848) passes
\* can_recurse FALSE.  kind "null" is a call with a null funcs: the hook is
\* allocated and filled in, the hook list refuses it, and the rest of the
\* function runs as ever.
SourceAdd(t, priority, can_recurse, kind, user_data, max) ==
  LET source == NewSource(seq_id, priority, can_recurse, kind, user_data) IN
  /\ ~crashed /\ CanCall(t) /\ lock = 0
  /\ seq_id <= max
  /\ kind = "idle" => ~can_recurse
  /\ kind = "null" => null_adds < MaxNullAdds
  /\ hooks' = g_hook_insert_sorted(hooks, source)
  /\ seq_id' = IF Refused(source) THEN seq_id ELSE seq_id + 1
  /\ null_adds' = IF kind = "null" THEN null_adds + 1 ELSE null_adds
  /\ IF poll_waiting
     THEN /\ poll_waiting' = FALSE
          /\ pipe_bytes' = IF wake_up_pipe THEN pipe_bytes + 1 ELSE pipe_bytes
     ELSE UNCHANGED <<poll_waiting, pipe_bytes>>
  /\ UNCHANGED <<pending, lock, poll_records, n_poll_records, wake_up_pipe,
                 stack, crashed, calls, iters, poll_adds, now,
                 loop, revents, polled>>

\* g_timeout_add_full (lines 778-799) called by g_timeout_add (lines
\* 801-807): priority 0, and g_source_add with can_recurse FALSE
TimeoutAdd(t, interval, max) ==
  /\ ~crashed /\ CanCall(t) /\ lock = 0
  /\ seq_id <= max
  /\ hooks' = g_hook_insert_sorted(hooks,
                 [NewSource(seq_id, 0, FALSE, "timeout", 1) EXCEPT
                    !.interval = interval,
                    !.expiration = Expire(now, interval),
                    !.armed = now])
  /\ seq_id' = seq_id + 1
  /\ IF poll_waiting
     THEN /\ poll_waiting' = FALSE
          /\ pipe_bytes' = IF wake_up_pipe THEN pipe_bytes + 1 ELSE pipe_bytes
     ELSE UNCHANGED <<poll_waiting, pipe_bytes>>
  /\ UNCHANGED <<pending, lock, poll_records, n_poll_records, wake_up_pipe,
                 stack, crashed, calls, budget, loop, revents, polled>>

\* time passes between two calls of g_get_current_time
Tick(d) ==
  /\ ~crashed
  /\ now.tv_sec < MaxSec
  /\ now' = [tv_sec |-> now.tv_sec + (now.tv_usec + d) \div 1000000,
             tv_usec |-> (now.tv_usec + d) % 1000000]
  /\ UNCHANGED <<hooks, seq_id, pending, lock, poll_records, n_poll_records,
                 wake_up_pipe, pipe_bytes, poll_waiting, stack, crashed,
                 calls, iters, poll_adds, null_adds, loop, revents, polled>>

\* A removal call that finds no hook changes nothing: it is a stuttering
\* step, and is left to [Next]_vars.
Removal(t, r) ==
  /\ ~crashed /\ CanCall(t) /\ lock = 0
  /\ r.hooks # hooks
  /\ hooks' = r.hooks
  /\ calls' = r.calls
  /\ UNCHANGED <<seq_id, pending, lock, poll_records, n_poll_records,
                 wake_up_pipe, pipe_bytes, poll_waiting, stack, crashed,
                 budget, loop, revents, polled>>

SourceRemove(t, tag) ==
  Removal(t, g_source_remove([hooks |-> hooks, calls |-> calls], tag))

SourceRemoveByUserData(t, user_data) ==
  Removal(t, g_source_remove_by_user_data([hooks |-> hooks, calls |-> calls],
                                          user_data))

SourceRemoveBySourceData(t, source_data) ==
  Removal(t, g_source_remove_by_source_data([hooks |-> hooks, calls |-> calls],
                                            source_data))

(* --------------------------- poll records ------------------------------ *)
\* the list insertion of g_main_poll_add_unlocked (lines 659-677): after the
\* last record of priority <= priority
InsertPollRec(recs, priority, fd) ==
  LET S == {i \in 1..Len(recs) : ~(priority >= recs[i].priority)} IN
  InsertAt(recs, IF S = {} THEN Len(recs) + 1
                 ELSE CHOOSE i \in S : \A j \in S : i <= j,
           [priority |-> priority, fd |-> fd])

\* the list walk of g_main_poll_remove (lines 689-709): the first record of fd
RemovePollRec(recs, fd) ==
  LET S == {i \in 1..Len(recs) : recs[i].fd = fd} IN
  IF S = {} THEN recs ELSE RemoveAt(recs, CHOOSE i \in S : \A j \in S : i <= j)

\* the descriptor array built by g_main_poll (lines 594-604): the leading
\* records admitted by the ceiling
AdmitsAll(use_priority, priority, rec) == TRUE

\* the loop condition of line 596
PollAdmits(use_priority, priority, rec) ==
  ~use_priority \/ priority >= rec.priority

RECURSIVE FillFdArray(_, _, _, _)
FillFdArray(recs, i, use_priority, priority) ==
  IF i <= Len(recs) /\ PollAdmits(use_priority, priority, recs[i])
  THEN <<recs[i]>> \o FillFdArray(recs, i + 1, use_priority, priority)
  ELSE <<>>

\* g_main_poll_add (lines 633-640) up to the g_unlock made inside
\* g_main_poll_add_unlocked (line 679); the g_unlock of line 639 is still to
\* come
PollAdd(t, priority, fd) ==
  /\ ~crashed /\ CanCall(t) /\ lock = 0
  /\ Len(poll_records) < MaxPollRecs
  /\ poll_adds < MaxPollAdds
  /\ poll_adds' = poll_adds + 1
  /\ poll_records' = InsertPollRec(poll_records, priority, fd)
  /\ n_poll_records' = n_poll_records + 1
  /\ stack' = Push(t, [NewFrame(FALSE, FALSE) EXCEPT !.pc = "poll_add_unlock"])
  /\ UNCHANGED <<hooks, seq_id, pending, lock, wake_up_pipe, pipe_bytes,
                 poll_waiting, crashed, calls, iters, now, null_adds,
                 loop, revents, polled>>

\* the g_unlock of line 639, of a lock the thread has already released
PollAddUnlock(t) ==
  /\ ~crashed /\ At(t, "poll_add_unlock")
  /\ lock' \in UnlockOutcomes(lock, t)
  /\ stack' = Pop(t)
  /\ UNCHANGED <<hooks, seq_id, pending, poll_records, n_poll_records,
                 wake_up_pipe, pipe_bytes, poll_waiting, crashed, calls,
                 budget, loop, revents, polled>>

\* g_main_poll_remove (lines 682-712)
PollRemove(t, fd) ==
  /\ ~crashed /\ CanCall(t) /\ lock = 0
  /\ \E i \in 1..Len(poll_records) : poll_records[i].fd = fd
  /\ poll_records' = RemovePollRec(poll_records, fd)
  /\ n_poll_records' = n_poll_records - 1
  /\ UNCHANGED <<hooks, seq_id, pending, lock, wake_up_pipe, pipe_bytes,
                 poll_waiting, stack, crashed, calls, budget, loop, revents, polled>>

(* ------------------------- the source operations ----------------------- *)
\* what a user source's prepare may answer: ready or not, and the value it
\* leaves in the timeout slot
PrepAnswers == {[ready |-> r, tmo |-> x] : r \in BOOLEAN, x \in TimeoutChoices}

\* prepare: g_idle_prepare (lines 811-818) returns TRUE; a user source
\* answers as the oracle ans says, in which a timer has the answer of
\* g_timeout_prepare
prepare(h, ans) == IF h.kind = "idle" THEN TRUE ELSE ans[h.oid].ready

\* the value of source_timeout after prepare: g_idle_prepare assigns its own
\* parameter (line 816) and leaves the caller's slot unwritten
source_timeout(h, ans, garbage) ==
  IF h.kind = "idle" THEN garbage ELSE ans[h.oid].tmo

\* check: g_idle_check (lines 820-825) returns TRUE; chk holds the timers
\* for which g_timeout_check does
check(h, chk) == IF h.kind = "idle" THEN TRUE ELSE h.oid \in chk

\* lines 422 and 479: a source in a call is passed over unless it may recurse
Skipped(h) == ~h.can_recurse /\ G_HOOK_IN_CALL(h)

NoCeiling(st, h) == FALSE

\* lines 420 and 477: the loop ends at the first source below the ceiling
CeilingBreak(st, h) == st.nready > 0 /\ h.priority > st.current_priority

(* ------------------------------ timers --------------------------------- *)
\* g_timeout_prepare (lines 729-743): the answer and the timeout written
g_timeout_prepare(h, current_time) ==
  LET msec == (h.expiration.tv_sec - current_time.tv_sec) * 1000
              + CDiv(h.expiration.tv_usec - current_time.tv_usec, 1000)
  IN [ready |-> msec <= 0, tmo |-> IF msec <= 0 THEN 0 ELSE msec]

\* g_timeout_check (lines 745-754)
g_timeout_check(h, current_time) ==
  \/ h.expiration.tv_sec < current_time.tv_sec
  \/ /\ h.expiration.tv_sec = current_time.tv_sec
     /\ h.expiration.tv_usec <= current_time.tv_usec

\* g_timeout_dispatch (lines 756-776) once the callback has returned keep
g_timeout_dispatch(h, current_time, keep) ==
  IF keep
  THEN [h EXCEPT !.expiration = Expire(current_time, h.interval),
                 !.armed = current_time]
  ELSE h

\* the timers a walk of the registry may ask
TimerOids(hs) == {hs[i].oid : i \in {j \in 1..Len(hs) :
                     /\ G_HOOK_IS_VALID(hs[j]) /\ ~Skipped(hs[j])
                     /\ hs[j].kind = "timeout"}}

\* what the timers answer to prepare and to check at current_time
TimerAnswers(hs, current_time) ==
  [o \in TimerOids(hs) |-> g_timeout_prepare(hs[HookAt(hs, o)], current_time)]

TimerChecks(hs, current_time) ==
  {o \in TimerOids(hs) : g_timeout_check(hs[HookAt(hs, o)], current_time)}

(* ------------------------ the timeout of the poll ---------------------- *)
AccumulateLast(timeout, stmo) == IF stmo >= 0 THEN stmo ELSE timeout

\* lines 448-454: a non-negative source timeout lowers the poll timeout
Accumulate(timeout, stmo) ==
  IF stmo >= 0
  THEN IF timeout < 0 THEN stmo ELSE MIN(timeout, stmo)
  ELSE timeout

(* --------------------------- g_main_iterate ---------------------------- *)
\* The prepare loop (lines 413-461) from list position i on.  st holds
\* hooks, nready, current_priority, timeout, early (the return TRUE of line
\* 438) and the log of the prepare calls made, each with the value of
\* source_timeout after the call.
RECURSIVE PrepareFrom(_, _, _, _, _)
PrepareFrom(i, st, dispatch, ans, garbage) ==
  IF i > Len(st.hooks) THEN st
  ELSE LET h == st.hooks[i] IN
    IF ~G_HOOK_IS_VALID(h)
    THEN PrepareFrom(i + 1, st, dispatch, ans, garbage)
    ELSE IF CeilingBreak(st, h) THEN st
    ELSE IF Skipped(h)
    THEN PrepareFrom(i + 1, st, dispatch, ans, garbage)
    ELSE
      LET ready == prepare(h, ans)
          stmo == source_timeout(h, ans, garbage)
          logged == [st EXCEPT !.log = Append(@,
                       [oid |-> h.oid, priority |-> h.priority,
                        ready |-> ready, tmo |-> stmo])]
      IN
      IF ready /\ ~dispatch THEN [logged EXCEPT !.early = TRUE]
      ELSE
        LET st1 == IF ready
                   THEN [logged EXCEPT !.hooks[i].ready = TRUE,
                                       !.nready = @ + 1,
                                       !.current_priority = h.priority,
                                       !.timeout = 0]
                   ELSE logged
            st2 == [st1 EXCEPT !.timeout = Accumulate(@, stmo)]
        IN PrepareFrom(i + 1, st2, dispatch, ans, garbage)

PreparePhase(hs, block, dispatch, ans, garbage) ==
  PrepareFrom(1, [hooks |-> hs, nready |-> 0, current_priority |-> 0,
                  timeout |-> IF block THEN -1 ELSE 0, early |-> FALSE,
                  log |-> <<>>],
              dispatch, ans, garbage)

\* The check loop (lines 469-511) from list position i on.  st holds hooks,
\* pending, nready, current_priority, early (the return TRUE of line 503)
\* and the log of the sources visited: called tells whether the check
\* operation ran (it does not when READY is set), sel whether the source was
\* selected.
RECURSIVE CheckFrom(_, _, _, _)
CheckFrom(i, st, dispatch, chk) ==
  IF i > Len(st.hooks) THEN st
  ELSE LET h == st.hooks[i] IN
    IF ~G_HOOK_IS_VALID(h) THEN CheckFrom(i + 1, st, dispatch, chk)
    ELSE IF CeilingBreak(st, h) THEN st
    ELSE IF Skipped(h) THEN CheckFrom(i + 1, st, dispatch, chk)
    ELSE
      LET sel == h.ready \/ check(h, chk)
          logged == [st EXCEPT !.log = Append(@,
                       [oid |-> h.oid, priority |-> h.priority,
                        kind |-> h.kind, called |-> ~h.ready, sel |-> sel])]
      IN
      IF ~sel THEN CheckFrom(i + 1, logged, dispatch, chk)
      ELSE IF ~dispatch THEN [logged EXCEPT !.early = TRUE]
      ELSE CheckFrom(i + 1,
             [logged EXCEPT !.hooks[i].ready = FALSE,
                            !.hooks[i].ref_count = @ + 1,
                            !.pending = <<h.oid>> \o @,
                            !.current_priority = h.priority,
                            !.nready = @ + 1],
             dispatch, chk)

CheckPhase(hs, pend, current_priority, dispatch, chk) ==
  CheckFrom(1, [hooks |-> hs, pending |-> pend, nready |-> 0,
                current_priority |-> current_priority, early |-> FALSE,
                log |-> <<>>],
            dispatch, chk)

Reverse(s) == [i \in 1..Len(s) |-> s[Len(s) + 1 - i]]

\* g_main_dispatch (lines 343-361) up to the g_unlock before the callback:
\* take entries off pending_dispatches, dropping the reference of each entry
\* that is no longer valid, until a valid one is found; it is marked IN_CALL
\* and named by src (0: the list ran out); dropped lists the entries that
\* were dropped
AlwaysDispatchable(h) == TRUE

Dispatchable(h) == G_HOOK_IS_VALID(h)

\* lines 347-351: the entry at the head of pending_dispatches is unlinked
TakeLast(pend) ==
  [source |-> pend[Len(pend)], rest |-> SubSeq(pend, 1, Len(pend) - 1)]

TakeEntry(pend) == [source |-> Head(pend), rest |-> Tail(pend)]

RECURSIVE DispatchNext(_, _)
DispatchNext(hs, pend) ==
  IF pend = <<>>
  THEN [hooks |-> hs, pending |-> pend, src |-> 0, dropped |-> <<>>]
  ELSE LET e == TakeEntry(pend)
           i == HookAt(hs, e.source) IN
       IF Dispatchable(hs[i])
       THEN [hooks |-> [hs EXCEPT ![i].in_call = TRUE],
             pending |-> e.rest, src |-> e.source, dropped |-> <<>>]
       ELSE LET d == DispatchNext(g_hook_unref(hs, e.source), e.rest) IN
            [d EXCEPT !.dropped = <<e.source>> \o @]

\* g_main_dispatch (lines 367-375) after the callback has returned:
\* IN_CALL is cleared, the source is destroyed when the callback returned
\* FALSE, and the reference of the pending entry is dropped.  r is
\* [hooks, calls].
AfterDispatch(r, source, need_destroy) ==
  LET hs1 == [r.hooks EXCEPT ![HookAt(r.hooks, source)].in_call = FALSE]
      r1 == IF need_destroy
            THEN g_hook_destroy_link([hooks |-> hs1, calls |-> r.calls], source)
            ELSE [hooks |-> hs1, calls |-> r.calls]
  IN [hooks |-> g_hook_unref(r1.hooks, source), calls |-> r1.calls]

(* ------------------------------ actions -------------------------------- *)
\* g_main_dispatch from the head of its loop to the g_unlock of line 363 (a
\* callback starts) or to the g_unlock that ends g_main_iterate (lines 405,
\* 522).  l is the lock as the thread finds it.
RunDispatch(t, f, hs, pend, l) ==
  LET d == DispatchNext(hs, pend)
      gone == [i \in 1..Len(d.dropped) |->
                 [oid |-> d.dropped[i], valid |-> FALSE]]
  IN
  /\ hooks' = d.hooks
  /\ pending' = d.pending
  /\ lock' \in UnlockOutcomes(l, t)
  /\ stack' = SetTop(t, IF d.src # 0
                        THEN [f EXCEPT !.pc = "dispatch", !.src = d.src,
                                !.took = @ \o gone \o
                                         <<[oid |-> d.src, valid |-> TRUE]>>]
                        ELSE [f EXCEPT !.pc = "return", !.src = 0,
                                !.took = @ \o gone])

\* g_main_pending (lines 529-533), g_main_iteration (lines 538-542) and
\* g_main_run's call (line 558) enter g_main_iterate; its g_lock (line 397)
Iterate(t, block, dispatch, depth, max) ==
  /\ ~crashed /\ CanCall(t) /\ lock = 0
  /\ Depth(t) < depth
  /\ iters < max
  /\ ~block \/ dispatch
  /\ iters' = iters + 1
  /\ lock' = t
  /\ stack' = Push(t, [NewFrame(block, dispatch) EXCEPT
                          !.queued = (pending # <<>>),
                          !.current_time = now])
  /\ UNCHANGED <<hooks, seq_id, pending, poll_records, n_poll_records,
                 wake_up_pipe, pipe_bytes, poll_waiting, crashed, calls,
                 poll_adds, now, null_adds, revents, polled>>

\* the call made through g_main_pending or g_main_iteration
IterLock(t, block, dispatch, depth, max) ==
  /\ Iterate(t, block, dispatch, depth, max)
  /\ UNCHANGED loop

(* ------------------------ g_main_run, g_main_quit ---------------------- *)
\* g_main_run, line 556: loop->flag = FALSE
RunStart(t) ==
  /\ ~crashed /\ loop.pc = "off" /\ Depth(t) = 0
  /\ loop' = [NoRun EXCEPT !.pc = "run", !.thread = t]
  /\ UNCHANGED <<hooks, seq_id, pending, lock, poll_records, n_poll_records,
                 wake_up_pipe, pipe_bytes, poll_waiting, stack, crashed,
                 calls, iters, poll_adds, now, null_adds, revents,
                 polled>>

\* line 557: while (!loop->flag), read with no lock held
RunTest(t) ==
  /\ ~crashed /\ loop.pc = "run" /\ loop.thread = t /\ Depth(t) = 0
  /\ loop' = [loop EXCEPT !.pc = IF loop.flag THEN "done" ELSE "call"]
  /\ UNCHANGED <<hooks, seq_id, pending, lock, poll_records, n_poll_records,
                 wake_up_pipe, pipe_bytes, poll_waiting, stack, crashed,
                 calls, iters, poll_adds, now, null_adds, revents,
                 polled>>

\* line 558: g_main_iterate (TRUE, TRUE)
RunCall(t) ==
  /\ loop.pc = "call" /\ loop.thread = t
  /\ Iterate(t, TRUE, TRUE, 1, MaxRunIters)
  /\ loop' = [loop EXCEPT !.pc = "run",
                          !.late = (@ \/ loop.quit # "none")]

\* where a call of g_main_quit made by thread t finds the run
QuitCase(t) ==
  IF t = loop.thread THEN "callback"
  ELSE IF At(loop.thread, "poll") THEN "poll"
  ELSE "other"

\* g_main_quit (lines 561-565): loop->flag = TRUE, and nothing else.  The
\* thread that is inside g_main_run can call it from a dispatch callback
\* only.
Quit(t) ==
  /\ ~crashed
  /\ IF loop.thread = t /\ loop.pc \in {"run", "call"}
     THEN At(t, "dispatch")
     ELSE Depth(t) = 0
  /\ loop' = [loop EXCEPT !.flag = TRUE,
                          !.quit = IF loop.pc \in {"run", "call"} /\ @ = "none"
                                   THEN QuitCase(t) ELSE @]
  /\ UNCHANGED <<hooks, seq_id, pending, lock, poll_records, n_poll_records,
                 wake_up_pipe, pipe_bytes, poll_waiting, stack, crashed,
                 calls, iters, poll_adds, now, null_adds, revents,
                 polled>>

\* lines 400-407: an interrupted iteration left entries to dispatch
IterDrain(t) ==
  LET f == Top(t) IN
  /\ ~crashed /\ At(t, "locked")
  /\ pending # <<>>
  /\ IF f.dispatch
     THEN RunDispatch(t, [f EXCEPT !.retval = TRUE, !.held = (lock = t),
                                   !.found = pending],
                      hooks, pending, lock)
     ELSE /\ lock' \in UnlockOutcomes(lock, t)
          /\ stack' = SetTop(t, [f EXCEPT !.pc = "return", !.retval = TRUE,
                                          !.held = (lock = t)])
          /\ UNCHANGED <<hooks, pending>>
  /\ UNCHANGED <<seq_id, poll_records, n_poll_records, wake_up_pipe,
                 pipe_bytes, poll_waiting, crashed, calls, budget, loop, revents, polled>>

\* the user sources a walk of the registry may ask: the oracles of a
\* prepare or check phase answer for these
UserOids(hs) == {hs[i].oid : i \in {j \in 1..Len(hs) :
                    /\ G_HOOK_IS_VALID(hs[j]) /\ ~Skipped(hs[j])
                    /\ hs[j].kind = "user"}}

IdleOids(hs) == {hs[i].oid : i \in {j \in 1..Len(hs) :
                    /\ G_HOOK_IS_VALID(hs[j]) /\ ~Skipped(hs[j])
                    /\ hs[j].kind = "idle"}}

\* what the test of line 583 may answer: the pipe is missing when pipe()
\* has not run; a thread that was already inside g_main_iterate when
\* another thread made the pipe may have made its test before that
NoPipeSeen(f) ==
  IF ~wake_up_pipe THEN {TRUE}
  ELSE IF f.raced THEN {TRUE, FALSE}
  ELSE {FALSE}

\* the call stacks once thread t has made the pipe: the other threads that
\* are past the g_lock of line 397 are inside the section too
Raced(stk, t) ==
  [u \in Threads |->
     IF u # t /\ Len(stk[u]) > 0
     THEN IF stk[u][Len(stk[u])].pc = "locked"
          THEN [stk[u] EXCEPT ![Len(stk[u])].raced = TRUE]
          ELSE stk[u]
     ELSE stk[u]]

\* lines 409-465 and g_main_poll (lines 577-608): the prepare phase, then
\* either the return of line 438, or the first use of the wake-up pipe up to
\* the g_unlock of line 679, or the descriptor array and the g_unlock of
\* line 608
IterPrepare(t) ==
  LET f == Top(t) IN
  /\ ~crashed /\ At(t, "locked")
  /\ pending = <<>>
  /\ \E ans \in [UserOids(hooks) -> PrepAnswers] :
     \E garbage \in IF IdleOids(hooks) = {} THEN {-1} ELSE Garbage :
     \E nopipe \in NoPipeSeen(f) :
       LET st == PreparePhase(hooks, f.block, f.dispatch,
                              ans @@ TimerAnswers(hooks, f.current_time),
                              garbage)
           f1 == [f EXCEPT !.nready = st.nready,
                           !.current_priority = st.current_priority,
                           !.timeout = st.timeout,
                           !.seen = seq_id,
                           !.held = (lock = t),
                           !.prep_log = [i \in 1..Len(st.log) |->
                              [oid |-> st.log[i].oid,
                               priority |-> st.log[i].priority,
                               ready |-> st.log[i].ready]],
                           !.cap = n_poll_records,
                           !.raced = FALSE]
       IN
       /\ hooks' = st.hooks
       /\ lock' \in UnlockOutcomes(lock, t)
       /\ IF st.early
          THEN /\ stack' = SetTop(t, [f1 EXCEPT !.pc = "return",
                                                !.retval = TRUE])
               /\ UNCHANGED <<poll_records, n_poll_records, wake_up_pipe,
                              poll_waiting, pipe_bytes>>
          ELSE IF nopipe
          THEN /\ wake_up_pipe' = TRUE
               /\ pipe_bytes' = 0
               /\ poll_records' = InsertPollRec(poll_records, 0, 0)
               /\ n_poll_records' = n_poll_records + 1
               /\ stack' = Raced(SetTop(t, [f1 EXCEPT !.pc = "poll_unlocked"]),
                                 t)
               /\ UNCHANGED poll_waiting
          ELSE /\ poll_waiting' = TRUE
               /\ stack' = SetTop(t, [f1 EXCEPT !.pc = "poll",
                      !.fd_array = FillFdArray(poll_records, 1,
                                     st.nready > 0, st.current_priority)])
               /\ UNCHANGED <<poll_records, n_poll_records, wake_up_pipe,
                              pipe_bytes>>
  /\ UNCHANGED <<seq_id, pending, crashed, calls, budget, loop, revents,
                 polled>>

\* g_main_poll, lines 594-608, on first use of the pipe: the lock was
\* released at line 679; the array was sized at line 577, and a write past
\* it either goes unnoticed or kills the process
PollUnlocked(t) ==
  LET f == Top(t)
      arr == FillFdArray(poll_records, 1, f.nready > 0, f.current_priority)
  IN
  /\ ~crashed /\ At(t, "poll_unlocked")
  /\ poll_waiting' = TRUE
  /\ lock' \in UnlockOutcomes(lock, t)
  /\ stack' = SetTop(t, [f EXCEPT !.pc = "poll", !.fd_array = arr])
  /\ crashed' \in IF Len(arr) > f.cap THEN {FALSE, TRUE} ELSE {FALSE}
  /\ UNCHANGED <<hooks, seq_id, pending, poll_records, n_poll_records,
                 wake_up_pipe, pipe_bytes, calls, budget, loop, revents, polled>>

\* (*poll_func) returns when the timeout is not infinite, when a caller's
\* descriptor is in the array (it may become ready at any time), or when
\* the pipe's read end is in the array and the pipe holds a byte
PollCanReturn(f) ==
  \/ f.timeout >= 0
  \/ \E i \in 1..Len(f.fd_array) :
       f.fd_array[i].fd # 0 \/ pipe_bytes > 0

\* what (*poll_func) may leave in the revents of a slot
Masks == {0, 1}

\* the arrays of answers (*poll_func) may give for the array arr (line
\* 610): any mask for a caller's descriptor; for the pipe's read end
\* readable (1) when the pipe holds a byte and nothing otherwise
PollAnswers(arr) ==
  {res \in [1..Len(arr) -> Masks] :
     \A i \in 1..Len(arr) :
       arr[i].fd = 0 => res[i] = IF pipe_bytes > 0 THEN 1 ELSE 0}

\* the callers' descriptors that were in the array, each with the answer of
\* its slot
Answered(arr, res) ==
  LET S == {i \in 1..Len(arr) : arr[i].fd # 0}
      Slot(k) == CHOOSE i \in S : Cardinality({j \in S : j <= i}) = k
  IN [k \in 1..Cardinality(S) |-> [fd |-> arr[Slot(k)].fd, res |-> res[Slot(k)]]]

\* lines 621-628: pollrec walks the list as it is now, and the answer of
\* slot i goes to the descriptor of the i-th record of that list, as long
\* as there is one.  wake_up_rec.revents is written too; nothing reads it
\* and it is not kept.
CopyBack(rev, recs, res) ==
  [d \in DOMAIN rev |->
     LET S == {i \in 1..MIN(Len(res), Len(recs)) : recs[i].fd = d} IN
     IF S = {} THEN rev[d] ELSE res[CHOOSE i \in S : \A j \in S : j <= i]]

\* retval at lines 515-520: TRUE when entries wait on pending_dispatches
\* after the check phase
RetvalStaysFalse(pend) == FALSE

IterateRetval(pend) == pend # <<>>

\* lines 621-628 onwards: the copy-back walk (it runs off the end of the
\* list when records were removed meanwhile: the process dies), the check
\* phase (lines 469-511) and the dispatch of lines 515-522
AfterPoll(t, f, l) ==
  IF Len(f.fd_array) > Len(poll_records)
  THEN /\ crashed' = TRUE
       /\ UNCHANGED <<hooks, pending, lock, stack>>
  ELSE
    \E chk \in SUBSET UserOids(hooks) :
      LET st == CheckPhase(hooks, pending, f.current_priority, f.dispatch,
                           chk \cup TimerChecks(hooks, f.current_time))
          f1 == [f EXCEPT !.chk_log = st.log,
                          !.nready = 0, !.timeout = 0, !.fd_array = <<>>,
                          !.cap = 0, !.current_priority = 0]
      IN
      /\ UNCHANGED crashed
      /\ IF st.early
         THEN /\ stack' = SetTop(t, [f1 EXCEPT !.pc = "return",
                                               !.retval = TRUE])
              /\ lock' \in UnlockOutcomes(l, t)
              /\ UNCHANGED <<hooks, pending>>
         ELSE IF st.pending # <<>>
         THEN RunDispatch(t, [f1 EXCEPT !.retval = IterateRetval(st.pending),
                                        !.found = Reverse(st.pending)],
                          st.hooks, Reverse(st.pending), l)
         ELSE /\ stack' = SetTop(t, [f1 EXCEPT !.pc = "return",
                                               !.retval = FALSE])
              /\ lock' \in UnlockOutcomes(l, t)
              /\ hooks' = st.hooks
              /\ UNCHANGED pending

\* g_main_iterate (FALSE, dispatch) as a function (lines 399-524): the value
\* it returns from a registry hs and a queue pend when the sources answer
\* as ans and chk say and nothing else runs meanwhile
IterateValue(hs, pend, dispatch, ans, chk, garbage) ==
  IF pend # <<>> THEN TRUE
  ELSE
    LET p == PreparePhase(hs, FALSE, dispatch, ans, garbage) IN
    IF p.early THEN TRUE
    ELSE
      LET c == CheckPhase(p.hooks, pend, p.current_priority, dispatch, chk) IN
      IF c.early THEN TRUE ELSE IterateRetval(c.pending)

\* lines 610-628: (*poll_func) returns and the lock is taken; the byte of a
\* wake-up is read, which blocks while the pipe is empty; then the answers
\* are copied back.  The blocked
\* reader (pc "read") holds the lock, and the only writer, g_source_add,
\* needs the lock before it writes: the read never returns.
PollReturn(t) ==
  LET f == Top(t) IN
  /\ ~crashed /\ At(t, "poll") /\ PollCanReturn(f)
  /\ lock = 0
  /\ IF ~poll_waiting /\ pipe_bytes = 0
     THEN /\ stack' = SetTop(t, [f EXCEPT !.pc = "read"])
          /\ lock' = t
          /\ UNCHANGED <<hooks, pending, poll_waiting, pipe_bytes, crashed,
                         revents, polled>>
     ELSE /\ poll_waiting' = FALSE
          /\ pipe_bytes' = IF ~poll_waiting THEN pipe_bytes - 1 ELSE pipe_bytes
          /\ \E res \in PollAnswers(f.fd_array) :
               /\ revents' = CopyBack(revents, poll_records, res)
               /\ polled' = Answered(f.fd_array, res)
          /\ AfterPoll(t, f, t)
  /\ UNCHANGED <<seq_id, poll_records, n_poll_records, wake_up_pipe, calls,
                 budget, loop>>

\* lines 364-375 and the loop of g_main_dispatch: the callback returns keep,
\* the lock is taken, the source is finished and the next entry is taken.
\* A timer whose callback returned TRUE is re-armed by a write to its
\* GTimeoutData (lines 766-771); when funcs->destroy has freed that block
\* the write goes unnoticed or kills the process.
DispatchReturn(t, keep) ==
  LET f == Top(t)
      i == HookAt(hooks, f.src)
      timer == hooks[i].kind = "timeout"
      hs == IF timer
            THEN [hooks EXCEPT ![i] = g_timeout_dispatch(@, f.current_time, keep)]
            ELSE hooks
      cs == IF ~timer THEN calls
            ELSE IF keep THEN [calls EXCEPT ![f.src].kept = @ + 1]
            ELSE [calls EXCEPT ![f.src].stopped = @ + 1]
      r == AfterDispatch([hooks |-> hs, calls |-> cs], f.src, ~keep)
      f1 == [f EXCEPT !.chk_log = <<>>, !.prep_log = <<>>,
                      !.prev = [oid |-> f.src,
                                priority |-> hooks[HookAt(hooks, f.src)].priority]]
  IN
  /\ ~crashed /\ At(t, "dispatch")
  /\ lock = 0
  /\ calls' = r.calls
  /\ crashed' \in IF timer /\ keep /\ calls[f.src].src > 0
                   THEN {FALSE, TRUE} ELSE {FALSE}
  /\ RunDispatch(t, f1, r.hooks, pending, t)
  /\ UNCHANGED <<seq_id, poll_records, n_poll_records, wake_up_pipe,
                 pipe_bytes, poll_waiting, budget, loop, revents, polled>>

\* g_main_iterate hands retval to its caller
Return(t) ==
  /\ ~crashed /\ At(t, "return")
  /\ stack' = Pop(t)
  /\ UNCHANGED <<hooks, seq_id, pending, lock, poll_records, n_poll_records,
                 wake_up_pipe, pipe_bytes, poll_waiting, crashed, calls,
                 budget, loop, revents, polled>>

\* the calls that change the source registry
RegistryOps(t, max) ==
  \/ \E p \in Prios, r \in BOOLEAN, k \in {"idle", "user"},
        d \in 1..MaxUserData : SourceAdd(t, p, r, k, d, max)
  \/ \E tag \in 0..MaxSources : SourceRemove(t, tag)
  \/ \E d \in 1..MaxUserData : SourceRemoveByUserData(t, d)
  \/ \E d \in Oids : SourceRemoveBySourceData(t, d)

\* the calls that change the poll records
PollOps(t) ==
  \/ \E p \in Prios, fd \in 1..MaxFds : PollAdd(t, p, fd)
  \/ PollAddUnlock(t)
  \/ \E fd \in 1..MaxFds : PollRemove(t, fd)

\* the steps of an iteration that is under way
IterSteps(t) ==
  \/ IterPrepare(t)
  \/ PollUnlocked(t)
  \/ PollReturn(t)
  \/ \E keep \in BOOLEAN : DispatchReturn(t, keep)
  \/ Return(t)

\* One thread runs the loop, also from inside its dispatch callbacks; every
\* thread adds and removes sources.
Next ==
  \E t \in Threads :
    \/ RegistryOps(t, MaxLoopSources)
    \/ \E b \in BOOLEAN, d \in BOOLEAN :
         t = 1 /\ IterLock(t, b, d, MaxDepth, MaxIters)
    \/ IterDrain(t)
    \/ IterSteps(t)

Spec == Init /\ [][Next]_vars

\* Every thread runs iterations (not nested) and adds sources.
NextMT ==
  \E t \in Threads :
    \/ \E p \in Prios, r \in BOOLEAN, k \in {"idle", "user"},
          d \in 1..MaxUserData : SourceAdd(t, p, r, k, d, MaxLoopSources)
    \/ \E b \in BOOLEAN : IterLock(t, b, TRUE, 1, MaxIters)
    \/ IterDrain(t)
    \/ IterSteps(t)

SpecMT == Init /\ [][NextMT]_vars

\* One thread runs iterations (not nested); every thread changes the poll
\* records and the source registry.
NextPoll ==
  \E t \in Threads :
    \/ RegistryOps(t, MaxLoopSources)
    \/ PollOps(t)
    \/ \E b \in BOOLEAN : t = 1 /\ IterLock(t, b, TRUE, 1, MaxIters)
    \/ IterSteps(t)

SpecPoll == Init /\ [][NextPoll]_vars

\* The registry on its own: every thread adds and removes sources, and one
\* thread runs an iteration, so that a source can be removed while it waits
\* on the pending queue.
NextReg ==
  \E t \in Threads :
    \/ RegistryOps(t, MaxSources)
    \/ t = 1 /\ IterLock(t, FALSE, TRUE, 1, MaxRegIters)
    \/ IterSteps(t)

SpecReg == Init /\ [][NextReg]_vars

\* The registry with calls that pass invalid arguments: a null funcs to
\* g_source_add, the id 0 to g_source_remove.
NextArgs ==
  \E t \in Threads :
    \/ \E p \in Prios, r \in BOOLEAN, k \in {"idle", "user", "null"},
          d \in 1..MaxUserData : SourceAdd(t, p, r, k, d, MaxSources)
    \/ \E tag \in 0..MaxSources : SourceRemove(t, tag)
    \/ t = 1 /\ IterLock(t, FALSE, TRUE, 1, MaxRegIters)
    \/ IterSteps(t)

SpecArgs == Init /\ [][NextArgs]_vars

\* Timers and a clock: every thread adds timers and runs iterations (not
\* nested) while time passes.
NextTimer ==
  \/ \E d \in TickChoices : Tick(d)
  \/ \E t \in Threads :
       \/ \E i \in Intervals : TimeoutAdd(t, i, MaxTimers)
       \/ \E b \in BOOLEAN : IterLock(t, b, TRUE, 1, MaxIters)
       \/ IterDrain(t)
       \/ IterSteps(t)

SpecTimer == Init /\ [][NextTimer]_vars

\* One thread on its own: it adds and removes sources and runs iterations,
\* also from inside its dispatch callbacks, where a nested call finds the
\* entries the interrupted iteration left on the pending queue.
NextDrain ==
  \/ \E p \in Prios, r \in BOOLEAN, d \in 1..MaxUserData :
       SourceAdd(1, p, r, "user", d, MaxSources)
  \/ \E tag \in 1..MaxSources : SourceRemove(1, tag)
  \/ IterLock(1, FALSE, TRUE, MaxDepth, MaxIters)
  \/ IterDrain(1)
  \/ IterSteps(1)

SpecDrain == Init /\ [][NextDrain]_vars

\* Every thread adds sources and calls g_main_pending and
\* g_main_iteration (FALSE), not nested.
NextProbe ==
  \E t \in Threads :
    \/ \E p \in Prios, r \in BOOLEAN, k \in {"idle", "user"},
          d \in 1..MaxUserData : SourceAdd(t, p, r, k, d, MaxLoopSources)
    \/ \E d \in BOOLEAN : IterLock(t, FALSE, d, 1, MaxIters)
    \/ IterDrain(t)
    \/ IterSteps(t)

SpecProbe == Init /\ [][NextProbe]_vars

\* One thread calls g_main_run; every thread adds sources and calls
\* g_main_quit.
NextRun ==
  \E t \in Threads :
    \/ \E p \in Prios, r \in BOOLEAN, k \in {"idle", "user"},
          d \in 1..MaxUserData : SourceAdd(t, p, r, k, d, MaxLoopSources)
    \/ t = 1 /\ RunStart(t)
    \/ RunTest(t)
    \/ RunCall(t)
    \/ Quit(t)
    \/ IterSteps(t)

SpecRun == Init /\ [][NextRun]_vars

\* Every thread runs iterations (not nested) and registers descriptors; no
\* source is registered.
NextPipe ==
  \E t \in Threads :
    \/ \E p \in Prios, fd \in 1..MaxFds : PollAdd(t, p, fd)
    \/ PollAddUnlock(t)
    \/ \E b \in BOOLEAN : IterLock(t, b, TRUE, 1, MaxIters)
    \/ IterPrepare(t)
    \/ PollUnlocked(t)
    \/ PollReturn(t)
    \/ Return(t)

SpecPipe == Init /\ [][NextPipe]_vars

\* Timers that are removed: every thread adds timers and removes sources,
\* also from inside a callback; one thread runs iterations while time
\* passes.
NextFree ==
  \/ \E d \in TickChoices : Tick(d)
  \/ \E t \in Threads :
       \/ \E i \in Intervals : TimeoutAdd(t, i, MaxTimers)
       \/ \E tag \in 1..MaxTimers : SourceRemove(t, tag)
       \/ \E b \in BOOLEAN : t = 1 /\ IterLock(t, b, TRUE, 1, MaxIters)
       \/ IterSteps(t)

SpecFree == Init /\ [][NextFree]_vars

(* ------------------------ notions the claims use ----------------------- *)
\* the activations on the call stacks, as <<thread, depth>>
FrameIds ==
  {ti \in Threads \X (1..(MaxDepth + 1)) : ti[2] <= Len(stack[ti[1]])}

Frame(ti) == stack[ti[1]][ti[2]]

\* the source is a valid entry of the registry
Valid(o) == \E i \in 1..Len(hooks) : hooks[i].oid = o /\ G_HOOK_IS_VALID(hooks[i])

\* the source was registered and is no longer a valid entry
Left(o) == o < seq_id /\ ~Valid(o)

\* registry order: ascending priority, registration order within a priority
Precedes(a, b) ==
  \/ a.priority < b.priority
  \/ a.priority = b.priority /\ a.oid < b.oid

\* the activations that are inside the dispatch callback of source o
InDispatch(o) ==
  {ti \in FrameIds : Frame(ti).pc = "dispatch" /\ Frame(ti).src = o}

(* ------------------------------- claims -------------------------------- *)
\* C1: a source that is IN_CALL and not CAN_RECURSE is never selected for
\* dispatch: the dispatch callback of a non-recursive source is never
\* started while an earlier dispatch of that source has not returned,
\* whatever threads add sources and run iterations.
C1_NonReentrancy ==
  \A o \in Oids :
    (IsLinked(hooks, o) /\ ~hooks[HookAt(hooks, o)].can_recurse)
      => Cardinality(InDispatch(o)) <= 1

\* C2: wake-up liveness: when g_source_add completes after the iterating
\* thread's prepare phase walked the registry, the thread's poll returns; no
\* thread sits in a poll with an infinite timeout that cannot return while a
\* source its prepare phase never saw is a valid entry of the registry.
C2_WakeupLiveness ==
  \A t \in Threads :
    (/\ ~crashed
     /\ At(t, "poll")
     /\ Top(t).timeout < 0
     /\ \E i \in 1..Len(hooks) : hooks[i].hook_id >= Top(t).seen)
      => PollCanReturn(Top(t))

\* C3: exactly-once destroy: for every source that has left the registry,
\* by a remove call or by its dispatch returning FALSE, the source's destroy
\* operation has run exactly once and the user-destroy hook has run exactly
\* once.
C3_ExactlyOnceDestroy ==
  \A o \in Oids :
    Left(o) => (calls[o].src = 1 /\ calls[o].user = 1)

\* C4 as stated: no destroy hook of a removed source, neither the source's
\* destroy operation nor the user-destroy hook, runs while the source is
\* still a valid entry of the registry.
C4_DestroyAfterUnlink ==
  \A o \in Oids :
    /\ calls[o].src > 0 => ~calls[o].src_valid
    /\ calls[o].user > 0 => ~calls[o].user_valid

\* C4, amended: the user-destroy hook runs only after the source has been
\* invalidated; the source's destroy operation is run by the remove
\* functions on the still valid source, immediately before the
\* invalidation and under the same hold of the lock, so the source is no
\* longer a valid entry when the lock is next released.
C4_DestroyOrder ==
  \A o \in Oids :
    /\ calls[o].user > 0 => ~calls[o].user_valid
    /\ calls[o].src > 0 => (calls[o].src_valid /\ Left(o))

\* a remove call has run both destroy hooks of a source
C4_Witness ==
  \E o \in Oids : calls[o].src = 1 /\ calls[o].user = 1 /\ Left(o)

\* C5: lock protection: a thread that is about to read or write the source
\* registry, the poll records, the pending queue or poll_waiting holds the
\* lock, and so does a thread that is about to release it; this covers the
\* first iteration (g_main_poll after g_main_poll_add_unlocked) and the
\* public g_main_poll_add.
C5_LockProtection ==
  \A t \in Threads :
    (At(t, "locked") \/ At(t, "poll_unlocked") \/ At(t, "poll_add_unlock")
       \/ At(t, "read"))
      => lock = t

\* C6: lock state per phase: every prepare call of an iteration was made
\* with the lock held by the calling thread, and a thread inside a dispatch
\* callback or inside the poll function does not hold the lock.
C6_LockPerPhase ==
  /\ \A ti \in FrameIds : Frame(ti).prep_log # <<>> => Frame(ti).held
  /\ \A t \in Threads : (At(t, "dispatch") \/ At(t, "poll")) => lock # t

\* an idle source of priority 0 reports ready in every prepare
\* (g_idle_prepare); o names one that is a valid entry of the registry
AlwaysReady(o) ==
  \E i \in 1..Len(hooks) :
    /\ hooks[i].oid = o /\ G_HOOK_IS_VALID(hooks[i])
    /\ hooks[i].kind = "idle" /\ hooks[i].priority = 0

\* C7 as stated: while a priority-0 source that reports ready in every
\* prepare is registered, no iteration, nested ones included, that prepared
\* after its registration dispatches an idle source of priority 1.
C7_Starvation ==
  \A ti \in FrameIds :
    LET f == Frame(ti) IN
    (/\ f.pc = "dispatch"
     /\ hooks[HookAt(hooks, f.src)].kind = "idle"
     /\ hooks[HookAt(hooks, f.src)].priority > 0)
      => ~\E o \in Oids : AlwaysReady(o) /\ o < f.seen

\* C7, amended: an iteration whose check phase visits a priority-0 source
\* that reports ready in every prepare (the source is valid and is not
\* passed over as IN_CALL without CAN_RECURSE) selects no source of
\* priority 1 for dispatch; an iteration started inside the dispatch
\* callback of that source passes it over and does dispatch the idle source
\* of priority 1.
C7_StarvationUnlessSkipped ==
  \A ti \in FrameIds :
    LET log == Frame(ti).chk_log IN
    (\E k \in 1..Len(log) : log[k].kind = "idle" /\ log[k].priority = 0)
      => \A k \in 1..Len(log) : log[k].sel => log[k].priority = 0

\* an iteration has selected the always-ready priority-0 source while an
\* idle source of priority 1, registered before its prepare phase, waits
C7_Witness ==
  \E ti \in FrameIds :
    LET f == Frame(ti) IN
    /\ f.pc = "dispatch"
    /\ \E k \in 1..Len(f.chk_log) :
         f.chk_log[k].kind = "idle" /\ f.chk_log[k].priority = 0
    /\ \E i \in 1..Len(hooks) :
         /\ G_HOOK_IS_VALID(hooks[i]) /\ hooks[i].kind = "idle"
         /\ hooks[i].priority = 1 /\ hooks[i].oid < f.seen
         /\ ~hooks[i].in_call

\* the ceiling holds over the prepare calls and the descriptor array of the
\* activation f, given that its entry i of prep_log reported ready
CeilingKept(f, i) ==
  LET P == f.prep_log[i].priority IN
  /\ \A j \in (i + 1)..Len(f.prep_log) : f.prep_log[j].priority <= P
  /\ \A j \in 1..Len(f.fd_array) : f.fd_array[j].priority <= P

\* C8 as stated: once a source of priority P has returned ready from
\* prepare, no source of priority greater than P has its prepare or its
\* check called in that iteration and no poll record of priority greater
\* than P is in the descriptor array, also when other threads add or remove
\* sources during the poll.
C8_Ceiling ==
  \A ti \in FrameIds :
    LET f == Frame(ti) IN
    \A i \in 1..Len(f.prep_log) :
      f.prep_log[i].ready =>
        /\ CeilingKept(f, i)
        /\ \A k \in 1..Len(f.chk_log) :
             f.chk_log[k].called => f.chk_log[k].priority <= f.prep_log[i].priority

\* C8, amended: the prepare calls and the descriptor array keep the
\* ceiling; the check phase keeps it when it selects a source of priority
\* at most P, as it does while the source that prepared ready is still a
\* valid entry and not in a call.  When that source is removed during the
\* poll, sources of priority greater than P have their check called.
C8_CeilingWhileSelected ==
  \A ti \in FrameIds :
    LET f == Frame(ti) IN
    \A i \in 1..Len(f.prep_log) :
      f.prep_log[i].ready =>
        /\ CeilingKept(f, i)
        /\ (\E k \in 1..Len(f.chk_log) :
              f.chk_log[k].sel /\ f.chk_log[k].priority <= f.prep_log[i].priority)
             => \A k \in 1..Len(f.chk_log) :
                  f.chk_log[k].called
                    => f.chk_log[k].priority <= f.prep_log[i].priority

\* an iteration prepared a priority-0 source ready and its check phase has
\* run, while a source and a poll record of priority 1 were there to be
\* left out
C8_Witness ==
  \E ti \in FrameIds :
    LET f == Frame(ti) IN
    /\ f.pc = "dispatch"
    /\ \E i \in 1..Len(f.prep_log) :
         f.prep_log[i].ready /\ f.prep_log[i].priority = 0
    /\ f.chk_log # <<>>
    /\ \E i \in 1..Len(hooks) :
         /\ G_HOOK_IS_VALID(hooks[i]) /\ hooks[i].priority = 1
         /\ hooks[i].oid < f.seen
    /\ \E i \in 1..Len(poll_records) : poll_records[i].priority = 1

\* C9: dispatch order: of two different sources whose callbacks an
\* iteration runs one after the other, the first comes first in registry
\* order: it has the smaller priority or, at equal priority, was registered
\* earlier.
C9_DispatchOrder ==
  \A ti \in FrameIds :
    LET f == Frame(ti) IN
    (f.pc = "dispatch" /\ f.prev.oid # 0 /\ f.prev.oid # f.src)
      => Precedes(f.prev, hooks[HookAt(hooks, f.src)])

\* C10: registry order: the valid sources of the registry are in
\* ascending priority, and within a priority in the order of registration
\* (a new source goes after every source of its priority).
C10_RegistryOrder ==
  \A i \in 1..Len(hooks), j \in 1..Len(hooks) :
    (i < j /\ G_HOOK_IS_VALID(hooks[i]) /\ G_HOOK_IS_VALID(hooks[j]))
      => Precedes(hooks[i], hooks[j])

\* three sources were added, two valid ones share a priority, and a
\* destroyed hook is still linked between adds
C10_Witness ==
  /\ seq_id = MaxSources + 1
  /\ \E i \in 1..Len(hooks) : ~G_HOOK_IS_VALID(hooks[i])
  /\ \E i \in 1..Len(hooks), j \in 1..Len(hooks) :
       /\ i < j /\ G_HOOK_IS_VALID(hooks[i]) /\ G_HOOK_IS_VALID(hooks[j])
       /\ hooks[i].priority = hooks[j].priority

\* the activation found entries on pending_dispatches when it was entered
Drained(f) == f.queued

\* the activations of g_main_iteration that have returned
Returned == {ti \in FrameIds : Frame(ti).pc = "return" /\ Frame(ti).dispatch}

\* C11 (as claimed): g_main_iteration returns TRUE if and only if at least
\* one dispatch callback was invoked during that call.
C11_ReturnValue ==
  \A ti \in Returned : Frame(ti).retval <=> (Frame(ti).prev.oid # 0)

\* C11 (amended): a call that invoked a callback returned TRUE; a call that
\* found entries on the pending queue returned TRUE whether or not any of
\* them was still valid; a call that found the queue empty returned TRUE
\* only when it invoked a callback.
C11_ReturnValueOrDrain ==
  \A ti \in Returned :
    LET f == Frame(ti) IN
    /\ f.prev.oid # 0 => f.retval
    /\ Drained(f) => f.retval
    /\ ~Drained(f) => (f.retval <=> (f.prev.oid # 0))

\* a nested call found only removed sources on the queue, invoked no
\* callback and returned TRUE
C11_Witness ==
  /\ \E ti \in Returned :
       Drained(Frame(ti)) /\ Frame(ti).prev.oid = 0 /\ ti[2] = 2
  /\ \E o \in Oids : Left(o)

\* the sources of the entries an activation has taken off the queue
TookOids(f) == [i \in 1..Len(f.took) |-> f.took[i].oid]

IsPrefix(a, b) == Len(a) <= Len(b) /\ a = SubSeq(b, 1, Len(a))

\* C12: a call of g_main_iteration made while the pending queue is
\* non-empty runs no prepare, poll or check; it returns TRUE with the queue
\* empty; it takes the entries in queue order and starts the callback of
\* exactly those that are still valid; and no entry is taken twice: each
\* activation takes a prefix of the queue it found, and a nested call finds
\* exactly the entries the interrupted activation has not taken.
C12_Drain ==
  \A ti \in FrameIds :
    LET f == Frame(ti) IN
    /\ IsPrefix(TookOids(f), f.found)
    /\ \A i \in 1..Len(f.took) : ~f.took[i].valid => ~Valid(f.took[i].oid)
    /\ (Drained(f) /\ f.dispatch) =>
         /\ f.pc \in {"locked", "dispatch", "return"}
         /\ f.seen = 0 /\ f.prep_log = <<>> /\ f.chk_log = <<>>
         /\ f.fd_array = <<>>
         /\ f.pc # "locked" => f.retval
         /\ f.pc = "return" => pending = <<>>
         /\ (f.pc # "locked" /\ ti[2] > 1) =>
              LET up == Frame(<<ti[1], ti[2] - 1>>) IN
              up.found = TookOids(up) \o f.found

\* a nested call found two entries, one of a source removed meanwhile: it
\* dropped that one, ran the callback of the other and returned
C12_Witness ==
  \E ti \in Returned :
    LET f == Frame(ti) IN
    /\ Drained(f) /\ Len(f.found) = 2 /\ Len(f.took) = 2
    /\ \E i, j \in 1..2 : ~f.took[i].valid /\ f.took[j].valid

\* this step starts the dispatch callback of source o: an activation takes
\* the entry of o off the queue and goes into its callback
Starts(o) ==
  \E ti \in FrameIds :
    /\ ti[2] <= Len(stack'[ti[1]])
    /\ stack'[ti[1]][ti[2]].pc = "dispatch"
    /\ stack'[ti[1]][ti[2]].src = o
    /\ Len(stack'[ti[1]][ti[2]].took) > Len(Frame(ti).took)

\* C13: once a source has left the registry (a remove call returned, or its
\* dispatch callback returned FALSE), no dispatch callback is started for
\* it, also when it waits on the pending queue.
C13_NoDispatchAfterRemoval ==
  [][\A o \in Oids : Left(o) => ~Starts(o)]_vars

\* the dispatcher met the queue entry of a source that had been removed and
\* dropped it
C13_Witness ==
  \E ti \in FrameIds :
    \E i \in 1..Len(Frame(ti).took) :
      ~Frame(ti).took[i].valid /\ Left(Frame(ti).took[i].oid)

\* the activations that are in g_main_poll
Polling == {ti \in FrameIds : Frame(ti).pc \in {"poll_unlocked", "poll"}}

\* the timeout the prepare calls of log ask for, tmo being what each left
\* in the timeout slot: 0 when block is FALSE or a source was ready, else
\* the least non-negative timeout written, else -1
WaitFor(log, block) ==
  LET S == {log[i].tmo : i \in {j \in 1..Len(log) : log[j].tmo >= 0}} IN
  IF ~block \/ \E i \in 1..Len(log) : log[i].ready THEN 0
  ELSE IF S = {} THEN -1
  ELSE CHOOSE x \in S : \A y \in S : x <= y

\* C14: the timeout handed to poll is 0 when block is FALSE or some source
\* prepared ready, whatever the ready source left in its timeout slot;
\* otherwise it is the least non-negative timeout the prepared sources
\* wrote, or -1 when there is none.  The first conjunct is about the
\* activations that are polling; the second takes every activation that is
\* about to run its prepare loop and every way the sources may answer.
C14_PollTimeout ==
  /\ \A ti \in Polling :
       LET f == Frame(ti) IN
       IF ~f.block \/ \E i \in 1..Len(f.prep_log) : f.prep_log[i].ready
       THEN f.timeout = 0
       ELSE f.timeout \in {-1} \cup {x \in TimeoutChoices : x >= 0}
  /\ \A t \in Threads :
       (At(t, "locked") /\ pending = <<>>) =>
         \A ans \in [UserOids(hooks) -> PrepAnswers], garbage \in Garbage :
           LET st == PreparePhase(hooks, Top(t).block, Top(t).dispatch,
                                  ans, garbage)
           IN ~st.early => st.timeout = WaitFor(st.log, Top(t).block)

\* a blocking iteration polls with timeout 0 after an idle source, whose
\* prepare writes no timeout, and a user source that left a timeout in the
\* slot were ready
C14_Witness ==
  \E ti \in Polling :
    LET f == Frame(ti) IN
    /\ f.block /\ f.timeout = 0
    /\ \E i, j \in 1..Len(f.prep_log) :
         /\ f.prep_log[i].ready /\ f.prep_log[j].ready
         /\ hooks[HookAt(hooks, f.prep_log[i].oid)].kind = "idle"
         /\ hooks[HookAt(hooks, f.prep_log[j].oid)].kind = "user"

\* an activation of g_main_pending
Probe(f) == ~f.dispatch /\ f.pc # "poll_add_unlock"

\* this step is made by thread t inside g_main_pending, or enters it
ProbeStep(t) ==
  /\ stack'[t] # stack[t]
  /\ IF Len(stack'[t]) > Len(stack[t])
     THEN Probe(stack'[t][Len(stack'[t])])
     ELSE Probe(Top(t))

\* g_main_pending invokes no dispatch callback, polls with timeout 0 and
\* does not block
ProbeNeverBlocks ==
  \A ti \in FrameIds :
    Probe(Frame(ti)) =>
      /\ Frame(ti).pc \notin {"dispatch", "read"}
      /\ Frame(ti).took = <<>>
      /\ ti \in Polling => Frame(ti).timeout = 0

\* in a state where a call can be made, g_main_pending returns what
\* g_main_iteration (FALSE) would return, for all answers of the sources
ProbeAgrees ==
  (lock = 0 /\ ~crashed) =>
    \A ans \in [UserOids(hooks) -> PrepAnswers], garbage \in Garbage :
      \A chk \in SUBSET UserOids(hooks) :
        IterateValue(hooks, pending, FALSE, ans, chk, garbage)
          = IterateValue(hooks, pending, TRUE, ans, chk, garbage)

\* C15: g_main_pending is a pure probe: it invokes no dispatch callback,
\* adds and removes no source, leaves the pending queue and the READY and
\* IN_CALL flags of every source as they are, polls with timeout 0 and
\* never blocks, and returns TRUE exactly when g_main_iteration (FALSE)
\* would, from the same state and with the same answers.
C15_PureProbe ==
  /\ []ProbeNeverBlocks
  /\ []ProbeAgrees
  /\ [][\A t \in Threads : ProbeStep(t) =>
          /\ hooks' = hooks /\ pending' = pending /\ seq_id' = seq_id]_vars

\* the timers that are valid entries of the registry, as list positions
Timers ==
  {i \in 1..Len(hooks) :
     G_HOOK_IS_VALID(hooks[i]) /\ hooks[i].kind = "timeout"}

\* the current times a timer is tested against
TestTimes ==
  {[tv_sec |-> sec, tv_usec |-> usec] : sec \in 0..MaxTestSec,
                                        usec \in UsecChoices}

\* C16: for a timer armed at time T with interval I milliseconds, the
\* stored expiration denotes exactly T + I, and g_timeout_check returns
\* TRUE for a current time exactly when that time is at or after T + I.
C16_ExpiryTest ==
  \A i \in Timers :
    LET h == hooks[i]
        due == TimeOf(h.armed) + h.interval * 1000
    IN
    /\ TimeOf(h.expiration) = due
    /\ \A cur \in TestTimes :
         g_timeout_check(h, cur) <=> (TimeOf(cur) >= due)

\* this step is the return with TRUE of the callback of the timer that
\* thread t is dispatching
TimerKept(t) ==
  /\ At(t, "dispatch")
  /\ hooks[HookAt(hooks, Top(t).src)].kind = "timeout"
  /\ calls'[Top(t).src].kept > calls[Top(t).src].kept

\* the callback of timer o has returned FALSE once, the timer has left the
\* registry and no callback of it is running
Stopped(o) == calls[o].stopped = 1 /\ Left(o) /\ InDispatch(o) = {}

\* C17: a timer whose callback returns TRUE N times and then FALSE is
\* invoked N + 1 times: each return with TRUE sets the expiration to the
\* current time of the dispatching iteration plus the interval, and once
\* the callback has returned FALSE the timer is out of the registry, no
\* callback of it is running and none is started again.
C17_Rearm ==
  /\ [](\A o \in Oids : calls[o].stopped > 0 => Stopped(o))
  /\ [][\A o \in Oids : calls[o].stopped > 0 => ~Starts(o)]_vars
  /\ [][\A t \in Threads : TimerKept(t) =>
          LET o == Top(t).src
              h == hooks'[HookAt(hooks', o)]
          IN TimeOf(h.expiration)
               = TimeOf(Top(t).current_time) + h.interval * 1000]_vars

\* C18: g_source_add with a null funcs registers nothing and leaves the
\* registry as it is; g_source_remove (0) removes nothing and runs no
\* destroy hook.
C18_InvalidArguments ==
  /\ [](\A i \in 1..Len(hooks) : hooks[i].kind # "null")
  /\ [](LET r == [hooks |-> hooks, calls |-> calls] IN
        g_source_remove(r, 0) = r)
  /\ [][null_adds' > null_adds =>
          hooks' = hooks /\ seq_id' = seq_id /\ calls' = calls]_vars

\* g_source_add was called with a null funcs while sources were registered
C18_Witness == null_adds > 0 /\ \E o \in Oids : Valid(o)

\* the valid entries of a registry, in list order
ValidHooks(hs) ==
  LET IsValid(h) == G_HOOK_IS_VALID(h) IN SelectSeq(hs, IsValid)

\* the valid entries of a registry other than the source of id tag
ValidHooksBut(hs, tag) ==
  LET Other(h) == G_HOOK_IS_VALID(h) /\ h.hook_id # tag IN SelectSeq(hs, Other)

\* C19: g_source_remove (k) removes the source of id k and nothing else:
\* the other valid sources keep their order, priority and flags, and a
\* call that finds no source of that id changes nothing.  With no valid
\* source and an empty pending queue, g_main_iteration (FALSE) prepares,
\* checks and dispatches nothing and returns FALSE.
C19_AddRemove ==
  /\ \A tag \in 1..MaxSources :
       LET r == g_source_remove([hooks |-> hooks, calls |-> calls], tag) IN
       /\ ValidHooks(r.hooks) = ValidHooksBut(hooks, tag)
       /\ g_hook_get(hooks, tag) = 0 => r.hooks = hooks /\ r.calls = calls
  /\ (ValidHooks(hooks) = <<>> /\ pending = <<>>) =>
       \A garbage \in Garbage :
         LET none == [o \in {} |-> 0]
             p == PreparePhase(hooks, FALSE, TRUE, none, garbage)
             c == CheckPhase(p.hooks, pending, p.current_priority, TRUE, {})
         IN /\ p.log = <<>> /\ c.log = <<>> /\ c.pending = <<>>
            /\ ~IterateValue(hooks, pending, TRUE, none, {}, garbage)
  /\ \A ti \in Returned :
       LET f == Frame(ti) IN
       (~Drained(f) /\ f.prep_log = <<>> /\ f.chk_log = <<>> /\ f.took = <<>>)
         => ~f.retval

\* the one source that was added has been removed, and an iteration that
\* began after the removal has prepared and checked nothing and returned
\* FALSE
C19_Witness ==
  /\ seq_id = 2 /\ Left(1)
  /\ \E ti \in Returned :
       LET f == Frame(ti) IN
       f.seen = 2 /\ f.prep_log = <<>> /\ f.chk_log = <<>> /\ ~f.retval

\* the call of g_main_run waits in a poll that nothing ends: no timeout,
\* no descriptor of a caller, no byte in the wake-up pipe
RunBlocked ==
  /\ ~crashed /\ loop.pc = "run"
  /\ At(loop.thread, "poll") /\ ~PollCanReturn(Top(loop.thread))

\* C20: when g_main_quit is called from a dispatch callback of the run, or
\* from another thread while the run is inside poll, g_main_run calls
\* g_main_iterate no more, and it is not left waiting in a poll that
\* nothing ends (it goes on to return).
C20_QuitObserved ==
  loop.quit \in {"callback", "poll"} => ~loop.late /\ ~RunBlocked

\* thread t's (*poll_func) returns in this step and the answers are copied
\* back (the copy may end in the death of the process)
PollEnded(t) ==
  /\ At(t, "poll")
  /\ \/ crashed' # crashed
     \/ stack'[t] # stack[t] /\ stack'[t][Len(stack'[t])].pc # "read"

\* the revents fields once every descriptor of answered has got the answer
\* of its own slot, and no other has been written
OwnAnswers(rev, answered) ==
  [d \in DOMAIN rev |->
     LET S == {k \in 1..Len(answered) : answered[k].fd = d} IN
     IF S = {} THEN rev[d] ELSE answered[CHOOSE k \in S : TRUE].res]

\* C21: when the poll phase of an iteration ends, the revents of each
\* caller's descriptor that was in the descriptor array holds the answer
\* (*poll_func) gave for its slot, and no other revents has changed, also
\* when g_main_poll_add or g_main_poll_remove ran during the poll.
C21_CopyBack ==
  [][\A t \in Threads :
       PollEnded(t) => revents' = OwnAnswers(revents, polled')]_vars

\* the records of the wake-up pipe's read end in the poll-record list
PipeRecs == {i \in 1..Len(poll_records) : poll_records[i].fd = 0}

\* C22: whatever the threads do, pipe() has run at most once: the list
\* holds no record of the pipe's read end before it and exactly one after
\* it, of priority 0.
C22_PipeOnce ==
  /\ Cardinality(PipeRecs) = IF wake_up_pipe THEN 1 ELSE 0
  /\ \A i \in PipeRecs : poll_records[i].priority = 0

\* C23: the descriptor array a thread polls on holds no more entries than
\* it was allocated for, and n_poll_records is the length of the
\* poll-record list.
C23_ArrayBound ==
  /\ \A ti \in FrameIds :
       Frame(ti).pc = "poll" => Len(Frame(ti).fd_array) <= Frame(ti).cap
  /\ n_poll_records = Len(poll_records)

\* the prepare operation of source o answered ready in the prepare phase
\* of activation f
PreparedReady(f, o) ==
  \E i \in 1..Len(f.prep_log) : f.prep_log[i].oid = o /\ f.prep_log[i].ready

\* C24: a source an iteration selects for dispatch had, in that iteration,
\* a prepare that answered ready or a check that answered TRUE: no READY
\* flag of an earlier iteration selects it.
C24_NoStaleReady ==
  \A ti \in FrameIds :
    LET f == Frame(ti) IN
    \A i \in 1..Len(f.chk_log) :
      (f.dispatch /\ f.chk_log[i].sel) =>
        f.chk_log[i].called \/ PreparedReady(f, f.chk_log[i].oid)

\* current times half a millisecond apart from those of TestTimes
NearTimes ==
  {[tv_sec |-> sec, tv_usec |-> usec] :
     sec \in 0..MaxTestSec, usec \in UsecChoices \cup {499500, 999500}}

\* C25: a timer does not fire early: whenever g_timeout_prepare answers
\* ready for a current time, g_timeout_check answers TRUE for that time,
\* and the callback of a timer armed at T with interval I runs only in an
\* iteration whose current time is at or after T + I.
C25_NeverEarly ==
  /\ \A i \in Timers : \A cur \in NearTimes :
       g_timeout_prepare(hooks[i], cur).ready => g_timeout_check(hooks[i], cur)
  /\ \A ti \in FrameIds :
       LET f == Frame(ti) IN
       (f.pc = "dispatch" /\ IsLinked(hooks, f.src)) =>
         LET h == hooks[HookAt(hooks, f.src)] IN
         h.kind = "timeout" =>
           TimeOf(f.current_time) >= TimeOf(h.armed) + h.interval * 1000

\* funcs->destroy has run on the datum of source o: g_free for a timer
Freed(o) == calls[o].src > 0

\* C26: once funcs->destroy has run on a source's datum, no operation of
\* the source uses the datum: the source is no valid entry of the registry
\* (prepare and check are not called on it), and g_timeout_dispatch does
\* not re-arm it after its callback has returned TRUE.
C26_NoUseAfterDestroy ==
  [][/\ \A i \in 1..Len(hooks) :
          G_HOOK_IS_VALID(hooks[i]) => ~Freed(hooks[i].oid)
     /\ \A t \in Threads : TimerKept(t) => ~Freed(Top(t).src)]_vars

\* the activations between poll_waiting = TRUE (line 606) and the end of
\* the handling of lines 613-619
Waiting == {ti \in FrameIds : Frame(ti).pc \in {"poll", "read"}}

\* C27: the bytes of the wake-up pipe balance: the read of line 616 finds a
\* byte and does not block, and the pipe is empty whenever no thread is
\* between line 606 and line 619.
C27_ByteBalance ==
  /\ \A ti \in FrameIds : Frame(ti).pc # "read"
  /\ Waiting = {} => pipe_bytes = 0
====
